---------------------------- MODULE Spec2Model ----------------------------
(***************************************************************************)
(* Snow-Wise: the three warehouse-facing tools of src/Toolkit.py, the      *)
(* agent wiring of src/Agent.py and the chat handler of src/Main.py.       *)
(*                                                                         *)
(* Text is a sequence of one-element strings (characters, or a stretch of  *)
(* fixed template text that holds neither a quote nor a backslash).        *)
(* The warehouse connection is the environment: every call a tool makes on *)
(* it either succeeds or raises, as an oracle ok[i] for the i-th call of   *)
(* one invocation decides.                                                 *)
(***************************************************************************)
EXTENDS Integers, Sequences, FiniteSets, TLC

VARIABLES call,        \* the last direct invocation of a tool's _run
          secrets,     \* Main.py: all five sidebar secrets are filled in
          messages,    \* Main.py: st.session_state.messages
          shell,       \* Main.py: where the script is ("idle" | "running")
          run,         \* the agent run in progress (AgentExecutor.run)
          exec,        \* the tool dispatch whose outcome the run has yet to take in
          turns,       \* how each dispatched turn ended
          activeRuns,  \* agent runs that have started and not ended
          activeTools, \* tool invocations that have started and not returned
          connUsers    \* accesses to the shared connection in progress

vars == <<call, secrets, messages, shell, run, exec, turns,
          activeRuns, activeTools, connUsers>>

agentVars == <<secrets, messages, shell, run, exec, turns,
               activeRuns, activeTools, connUsers>>

---------------------------------------------------------------------------
(* Bounds *)

MaxTables == 3      \* names in one table list
MaxQueryLen == 3    \* characters in one query handed to the checker
MaxStmtId == 2      \* first statement identifier the connection may assign
MaxTurns == 2       \* chat inputs in one session
MaxIterations == 2  \* reasoning steps of one agent run (the executor's limit)

\* connection calls of QuerySQLDataBaseTool._run: read_sql, cursor, execute, close
QueryCalls == 4

\* the most connection calls one _run makes
MaxCalls == IF MaxTables > QueryCalls THEN MaxTables ELSE QueryCalls

---------------------------------------------------------------------------
(* Text *)

SQ == "'"
DQ == "\""
BS == "\\"
COMMA == ","

\* Python's None, and a statement identifier the connection assigned (cursor.sfqid)
None == [is_none |-> TRUE]
Sfqid(n) == [is_none |-> FALSE, id |-> n]

RECURSIVE SeqsUpTo(_, _)
SeqsUpTo(S, n) ==
    IF n = 0 THEN {<<>>}
    ELSE LET shorter == SeqsUpTo(S, n - 1)
         IN  shorter \cup {Append(s, c) : s \in {t \in shorter : Len(t) = n - 1}, c \in S}

\* ",".join(names): how a caller writes a comma-separated list
RECURSIVE Join(_)
Join(names) ==
    IF Len(names) = 0 THEN <<>>
    ELSE IF Len(names) = 1 THEN names[1]
    ELSE names[1] \o <<COMMA>> \o Join(Tail(names))

\* str.split(",", 1): a faulty variant that stops after the first comma
SplitOnce(s) ==
    IF \A i \in 1..Len(s) : s[i] # COMMA THEN <<s>>
    ELSE LET i == CHOOSE k \in 1..Len(s) :
                      s[k] = COMMA /\ \A j \in 1..(k - 1) : s[j] # COMMA
         IN  <<SubSeq(s, 1, i - 1), SubSeq(s, i + 1, Len(s))>>

\* str.split(","): every comma separates, empty pieces are kept
RECURSIVE Split(_)
Split(s) ==
    IF \A i \in 1..Len(s) : s[i] # COMMA THEN <<s>>
    ELSE LET i == CHOOSE k \in 1..Len(s) :
                      s[k] = COMMA /\ \A j \in 1..(k - 1) : s[j] # COMMA
         IN  <<SubSeq(s, 1, i - 1)>> \o Split(SubSeq(s, i + 1, Len(s)))

\* str.replace(old, new) for a one-character old
RECURSIVE Replace(_, _, _)
Replace(s, old, new) ==
    IF s = <<>> THEN <<>>
    ELSE (IF Head(s) = old THEN new ELSE <<Head(s)>>) \o Replace(Tail(s), old, new)

Oracles == [1..MaxCalls -> BOOLEAN]

---------------------------------------------------------------------------
(* InfoSnowflakeTableTool (sql_db_schema) *)

DescribeQuery(t) == <<"DESCRIBE TABLE ">> \o t

\* schema.to_string() of the rows the connection describes for t
SchemaText(t) == <<"columns of ">> \o t

Section(t) == [header |-> <<"Schema for table ">> \o t \o <<":">>,
               body   |-> SchemaText(t)]

\* the for loop of _run from its i-th table on: no try, so the first failing
\* pd.read_sql raises out of the tool and output_schema is lost
RECURSIVE InfoLoop(_, _, _, _, _)
InfoLoop(names, i, output_schema, calls, ok) ==
    IF i > Len(names)
    THEN [outcome |-> "return", value |-> output_schema, calls |-> calls]
    ELSE LET t == names[i]
             made == Append(calls, DescribeQuery(t))
         IN  IF ok[Len(made)]
             THEN InfoLoop(names, i + 1, Append(output_schema, Section(t)), made, ok)
             ELSE [outcome |-> "raise", value |-> <<"DatabaseError">>, calls |-> made]

\* a variant that isolates a failing table and goes on with the next
RECURSIVE InfoLoopIsolated(_, _, _, _, _)
InfoLoopIsolated(names, i, output_schema, calls, ok) ==
    IF i > Len(names)
    THEN [outcome |-> "return", value |-> output_schema, calls |-> calls]
    ELSE LET t == names[i]
             made == Append(calls, DescribeQuery(t))
         IN  IF ok[Len(made)]
             THEN InfoLoopIsolated(names, i + 1, Append(output_schema, Section(t)), made, ok)
             ELSE InfoLoopIsolated(names, i + 1, output_schema, made, ok)

DescribeAllIsolated(names, ok) == InfoLoopIsolated(names, 1, <<>>, <<>>, ok)

DescribeAll(names, ok) == InfoLoop(names, 1, <<>>, <<>>, ok)

InfoSnowflakeTableTool_run(table_names, ok) ==
    LET _table_names == Split(table_names)
    IN  DescribeAll(_table_names, ok)

---------------------------------------------------------------------------
(* QuerySQLCheckerTool (sql_db_query_checker) *)

\* the template up to {query}, and from {query} on with {dialect} filled in;
\* the template text holds no quote and no backslash
TemplateHead == <<"\n    ">>

TemplateTail(dialect) ==
    <<"\n    Double check the ", dialect,
      " query above for common mistakes, including: ... Output the final SQL query only.\n\n    SQL Query: ">>

\* query.replace('"', '\\"').replace("'", "\\'")
EscapeQuotes(query) == Replace(Replace(query, DQ, <<BS, DQ>>), SQ, <<BS, SQ>>)

\* self.template.format(query=escaped_query, dialect="Snowflake")
FormatTemplate(escaped_query, dialect) ==
    TemplateHead \o escaped_query \o TemplateTail(dialect)

CortexHead == <<"SELECT SNOWFLAKE.CORTEX.COMPLETE(", SQ, "snowflake-arctic", SQ, ", ", SQ>>

\* f"SELECT SNOWFLAKE.CORTEX.COMPLETE('snowflake-arctic', '{prompt}');"
CortexQuery(prompt) == CortexHead \o prompt \o <<SQ, ");">>

\* result.iloc[0, 0]: the one text the completion endpoint answers
CheckedQuery == <<"checked query">>

\* no try: a failing pd.read_sql raises out of the tool
QuerySQLCheckerTool_run(query, ok) ==
    LET escaped_query == EscapeQuotes(query)
        prompt == FormatTemplate(escaped_query, "Snowflake")
        cortex_query == CortexQuery(prompt)
    IN  IF ok[1]
        THEN [outcome |-> "return", value |-> CheckedQuery, calls |-> <<cortex_query>>]
        ELSE [outcome |-> "raise", value |-> <<"DatabaseError">>, calls |-> <<cortex_query>>]

---------------------------------------------------------------------------
(* QuerySQLDataBaseTool (sql_db_query) *)

DataFrame(query) == [type |-> "DataFrame", rows |-> <<"rows of ">> \o query]

\* f"Error: {e}"
ErrorMsg(e) == [type |-> "str", text |-> <<"Error: ", e>>]

\* The body of the try. The connection gives every statement it executes an
\* identifier of its own: the k-th execution of this invocation gets id0 + k - 1.
\* execs lists the executions that went through (the statement's effect applied);
\* results_of is the execution the returned rows came from.
QueryTry(query, ok, id0) ==
    LET read    == <<"read_sql">> \o query
        execute == <<"cursor.execute">> \o query
        first   == [stmt |-> query, id |-> id0]
        second  == [stmt |-> query, id |-> id0 + 1]
        raised(e, calls, execs) ==
            [outcome |-> "raise", value |-> e, calls |-> calls, execs |-> execs,
             results_of |-> 0]
    IN  IF ~ok[1] THEN raised("DatabaseError", <<read>>, <<>>)
        ELSE IF ~ok[2] THEN raised("OperationalError", <<read, <<"cursor">>>>, <<first>>)
        ELSE IF ~ok[3] THEN raised("ProgrammingError", <<read, <<"cursor">>, execute>>, <<first>>)
        ELSE IF ~ok[4] THEN raised("OperationalError",
                                   <<read, <<"cursor">>, execute, <<"cursor.close">>>>,
                                   <<first, second>>)
        ELSE [outcome |-> "return",
              value |-> <<DataFrame(query), Sfqid(second.id)>>,   \* (results, cursor.sfqid)
              calls |-> <<read, <<"cursor">>, execute, <<"cursor.close">>>>,
              execs |-> <<first, second>>,
              results_of |-> first.id]

\* a faulty variant without the except clause
QueryUncaught(query, ok, id0) == QueryTry(query, ok, id0)

\* try ... except Exception as e: return f"Error: {e}", None
QuerySQLDataBaseTool_run(query, ok, id0) ==
    LET r == QueryTry(query, ok, id0)
    IN  IF r.outcome = "raise"
        THEN [r EXCEPT !.outcome = "return", !.value = <<ErrorMsg(r.value), None>>]
        ELSE r

---------------------------------------------------------------------------
(* Direct invocations of the tools: any input, any connection behaviour.   *)
(* The tools keep no state of their own, so one invocation per behaviour   *)
(* covers them.                                                            *)

\* table names as a caller lists them: plain, and with a blank before or after
Names == {<<"a">>, <<"b">>, <<" ", "b">>, <<"a", " ">>}
TableLists == SeqsUpTo(Names, MaxTables) \ {<<>>}

QueryChars == {"a", SQ, DQ, BS}
Queries == SeqsUpTo(QueryChars, MaxQueryLen)

Statements == {<<"SELECT 1">>, <<"DELETE FROM t">>}
StmtIds == 1..MaxStmtId

NoCall == [tool |-> "none"]

RunSchema ==
    \E names \in TableLists, ok \in Oracles :
        /\ call = NoCall
        /\ call' = [tool |-> "sql_db_schema", listed |-> names, input |-> Join(names),
                    ok |-> ok, res |-> InfoSnowflakeTableTool_run(Join(names), ok)]
        /\ UNCHANGED agentVars

RunChecker ==
    \E query \in Queries, ok \in Oracles :
        /\ call = NoCall
        /\ call' = [tool |-> "sql_db_query_checker", input |-> query,
                    ok |-> ok, res |-> QuerySQLCheckerTool_run(query, ok)]
        /\ UNCHANGED agentVars

RunQuery ==
    \E query \in Statements, ok \in Oracles, id0 \in StmtIds :
        /\ call = NoCall
        /\ call' = [tool |-> "sql_db_query", input |-> query,
                    ok |-> ok, res |-> QuerySQLDataBaseTool_run(query, ok, id0)]
        /\ UNCHANGED agentVars

---------------------------------------------------------------------------
(* Agent (src/Agent.py): the executor initialize_agent builds over the      *)
(* tools. The loop itself is the imported executor's: each step asks the   *)
(* completion client for text, which is a final answer or names a tool and *)
(* its input; a name among the tools runs that tool, any other name is     *)
(* answered with a refusal observation; after max_iterations steps the     *)
(* executor returns its stopped response. Agent.__init__ changes none of   *)
(* these defaults.                                                         *)

\* a faulty variant that also hands the agent the WordLength tool of src/Try.py
get_tools_with_extra == <<"sql_db_query", "sql_db_schema", "sql_db_query_checker", "WordLength">>

\* AgentToolkit.get_tools: the names of the tools it returns, in its order
get_tools == <<"sql_db_query", "sql_db_schema", "sql_db_query_checker">>

\* Agent.__init__: tools = toolkit.get_tools(); initialize_agent(tools=tools, ...)
AgentTools == {get_tools[i] : i \in 1..Len(get_tools)}

\* one tool's run, by the name it is registered under
RunTool(name, tool_input, ok, id0) ==
    CASE name = "sql_db_query" -> QuerySQLDataBaseTool_run(tool_input, ok, id0)
      [] name = "sql_db_schema" -> InfoSnowflakeTableTool_run(tool_input, ok)
      [] name = "sql_db_query_checker" -> QuerySQLCheckerTool_run(tool_input, ok)
      [] OTHER -> [outcome |-> "return", value |-> <<"result of ", name>>, calls |-> <<>>]

\* the executor's answer to a tool name it was not given: an observation, no tool run
InvalidTool(name) ==
    [outcome |-> "return",
     value |-> <<name, " is not a valid tool, try one of ">> \o get_tools,
     calls |-> <<>>]

\* the executor looks the requested name up among the tools it was given
Dispatch(name, tool_input, ok, id0) ==
    IF name \in AgentTools
    THEN [ran |-> name, res |-> RunTool(name, tool_input, ok, id0)]
    ELSE [ran |-> "invalid_tool", res |-> InvalidTool(name)]

\* the three tools all work on the connection; the refusal of an unknown name does not
UsesConnection(name) == name \in AgentTools

\* what the executor answers when the step limit ends the loop
StoppedResponse == "Agent stopped due to iteration limit or time limit."

\* a variant in which the step limit raises out of the run
LimitRaises == "raised"

\* the step limit ends the run like a final answer does: run returns an output
LimitEndsAs == "final-answer"

---------------------------------------------------------------------------
(* The chat handler (src/Main.py) and the agent run it dispatches *)

\* what the user types; no step of the handler or of the run reads its text
Prompts == {"find the long running queries"}
FinalAnswers == {"summary"}

\* what the model's text may ask for: a tool the agent has, or one it has not
RequestedTools == {"sql_db_query", "sql_db_schema", "sql_db_query_checker", "WordLength"}

ToolInputs(name) ==
    CASE name = "sql_db_query" -> {<<"SELECT 1">>}
      [] name = "sql_db_schema" -> {<<"a">>, <<"a", COMMA, " ", "b">>}
      [] name = "sql_db_query_checker" -> {<<"a", SQ>>}
      [] OTHER -> {<<"a">>}

NoRun == [phase |-> "awaiting-input"]
NoExec == [requested |-> "none"]

\* agent_executor.run(prompt, callbacks=[st_callback]): the run is given the new
\* input alone; st.session_state.messages is not passed and the executor has no memory
RunInputs(prompt, history) == [input |-> prompt, chat_history |-> <<>>]

\* a faulty variant in which the script takes a chat input while a run is in progress
ShellAlwaysReady == TRUE

\* the script is single-threaded: it takes a chat input only when no run is in progress
ShellReady == shell = "idle"

Init ==
    /\ call = NoCall
    /\ secrets = FALSE
    /\ messages = <<>>
    /\ shell = "idle"
    /\ run = NoRun
    /\ exec = NoExec
    /\ turns = <<>>
    /\ activeRuns = 0
    /\ activeTools = 0
    /\ connUsers = 0

\* the sidebar: once the five secrets are in, the connection and the agent are built
EnterSecrets ==
    /\ ShellReady
    /\ ~secrets
    /\ secrets' = TRUE
    /\ UNCHANGED <<call, messages, shell, run, exec, turns, activeRuns, activeTools, connUsers>>

\* if prompt := st.chat_input(...): without the secrets st.info and st.stop;
\* with them the user turn is appended and the agent run starts
ChatInput ==
    \E prompt \in Prompts :
        /\ ShellReady
        /\ Len(turns) < MaxTurns
        /\ IF ~secrets
           THEN UNCHANGED vars
           ELSE /\ messages' = Append(messages, [role |-> "user", content |-> prompt])
                /\ shell' = "running"
                /\ run' = [phase |-> "reasoning",
                           inputs |-> RunInputs(prompt, messages),
                           intermediate_steps |-> <<>>,
                           iterations |-> 0]
                /\ activeRuns' = activeRuns + 1
                /\ UNCHANGED <<call, secrets, exec, turns, activeTools, connUsers>>

\* while iterations < max_iterations: the next completion call goes out on the connection
ReasonStart ==
    /\ run.phase = "reasoning"
    /\ run.iterations < MaxIterations
    /\ run' = [run EXCEPT !.phase = "llm"]
    /\ connUsers' = connUsers + 1
    /\ UNCHANGED <<call, secrets, messages, shell, exec, turns, activeRuns, activeTools>>

\* the completion call returns a final answer
ReasonFinal ==
    \E answer \in FinalAnswers :
        /\ run.phase = "llm"
        /\ run' = [phase |-> "final-answer", inputs |-> run.inputs,
                   intermediate_steps |-> run.intermediate_steps,
                   iterations |-> run.iterations,
                   output |-> answer, ended_by |-> "final"]
        /\ connUsers' = connUsers - 1
        /\ UNCHANGED <<call, secrets, messages, shell, exec, turns, activeRuns, activeTools>>

\* the completion call returns a tool invocation
ReasonAction ==
    \E name \in RequestedTools :
        \E tool_input \in ToolInputs(name) :
            /\ run.phase = "llm"
            /\ run' = [phase |-> "tool-selected", inputs |-> run.inputs,
                       intermediate_steps |-> run.intermediate_steps,
                       iterations |-> run.iterations,
                       action |-> [tool |-> name, tool_input |-> tool_input]]
            /\ connUsers' = connUsers - 1
            /\ UNCHANGED <<call, secrets, messages, shell, exec, turns, activeRuns, activeTools>>

\* SnowflakeCortexLLM._call raises, or its text is no action and no final answer
\* and the output parser raises. _call raises when pd.read_sql fails on the
\* connection; as src/Agent.py stands it also raises on every call, a NameError,
\* because the module uses pd and never imports pandas. The two actions above are
\* the call with that import in place.
ReasonRaises ==
    \E e \in {"completion call raised", "OutputParserException"} :
        /\ run.phase = "llm"
        /\ run' = [phase |-> "raised", inputs |-> run.inputs,
                   intermediate_steps |-> run.intermediate_steps,
                   iterations |-> run.iterations,
                   ended_by |-> e]
        /\ connUsers' = connUsers - 1
        /\ UNCHANGED <<call, secrets, messages, shell, exec, turns, activeRuns, activeTools>>

\* the selected tool starts; a tool the agent has uses the connection
ToolStart ==
    /\ run.phase = "tool-selected"
    /\ run' = [run EXCEPT !.phase = "acting"]
    /\ activeTools' = activeTools + 1
    /\ connUsers' = IF UsesConnection(run.action.tool) THEN connUsers + 1 ELSE connUsers
    /\ exec' = NoExec
    /\ UNCHANGED <<call, secrets, messages, shell, turns, activeRuns>>

\* the tool returns its observation, or its exception leaves the executor
ToolEnd ==
    \E ok \in Oracles, id0 \in StmtIds :
        LET d == Dispatch(run.action.tool, run.action.tool_input, ok, id0)
        IN  /\ run.phase = "acting"
            /\ exec' = [requested |-> run.action.tool, ran |-> d.ran, res |-> d.res,
                        conn_failed |-> \E i \in 1..Len(d.res.calls) : ~ok[i]]
            /\ run' = IF d.res.outcome = "return"
                      THEN [phase |-> "observing", inputs |-> run.inputs,
                            intermediate_steps |-> run.intermediate_steps,
                            iterations |-> run.iterations,
                            action |-> run.action, observation |-> d.res.value]
                      ELSE [phase |-> "raised", inputs |-> run.inputs,
                            intermediate_steps |-> run.intermediate_steps,
                            iterations |-> run.iterations,
                            ended_by |-> "tool exception"]
            /\ activeTools' = activeTools - 1
            /\ connUsers' = IF UsesConnection(run.action.tool) THEN connUsers - 1 ELSE connUsers
            /\ UNCHANGED <<call, secrets, messages, shell, turns, activeRuns>>

\* intermediate_steps.append((action, observation)); iterations += 1
Observe ==
    /\ run.phase = "observing"
    /\ run' = [phase |-> "reasoning", inputs |-> run.inputs,
               intermediate_steps |->
                   Append(run.intermediate_steps,
                          [tool |-> run.action.tool, observation |-> run.observation]),
               iterations |-> run.iterations + 1]
    /\ exec' = NoExec
    /\ UNCHANGED <<call, secrets, messages, shell, turns, activeRuns, activeTools, connUsers>>

\* the step limit ends the loop: the executor returns its stopped response
StepLimit ==
    /\ run.phase = "reasoning"
    /\ run.iterations >= MaxIterations
    /\ run' = [phase |-> LimitEndsAs, inputs |-> run.inputs,
               intermediate_steps |-> run.intermediate_steps,
               iterations |-> run.iterations,
               output |-> StoppedResponse, ended_by |-> "limit"]
    /\ UNCHANGED <<call, secrets, messages, shell, exec, turns, activeRuns, activeTools, connUsers>>

\* st.markdown(response); st.session_state.messages.append(assistant, response)
Respond ==
    /\ run.phase = "final-answer"
    /\ messages' = Append(messages, [role |-> "assistant", content |-> run.output])
    /\ turns' = Append(turns, [ended_by |-> run.ended_by, shown |-> "answer"])
    /\ run' = NoRun
    /\ shell' = "idle"
    /\ activeRuns' = activeRuns - 1
    /\ UNCHANGED <<call, secrets, exec, activeTools, connUsers>>

\* an exception leaves agent_executor.run: the script run ends there, no assistant
\* turn is rendered or appended
Uncaught ==
    /\ run.phase = "raised"
    /\ turns' = Append(turns, [ended_by |-> run.ended_by, shown |-> "error"])
    /\ run' = NoRun
    /\ shell' = "idle"
    /\ activeRuns' = activeRuns - 1
    /\ exec' = NoExec
    /\ UNCHANGED <<call, secrets, messages, activeTools, connUsers>>

Next ==
    \/ EnterSecrets
    \/ ChatInput
    \/ ReasonStart
    \/ ReasonFinal
    \/ ReasonAction
    \/ ReasonRaises
    \/ ToolStart
    \/ ToolEnd
    \/ Observe
    \/ StepLimit
    \/ Respond
    \/ Uncaught

Spec == Init /\ [][Next]_vars

\* every completion call and every tool call returns, and the script goes on
RunStep ==
    \/ ReasonStart \/ ReasonFinal \/ ReasonAction \/ ReasonRaises
    \/ ToolStart \/ ToolEnd \/ Observe \/ StepLimit \/ Respond \/ Uncaught

FairSpec == Spec /\ WF_vars(RunStep)

NextTools == RunSchema \/ RunChecker \/ RunQuery

SpecTools == Init /\ [][NextTools]_vars

---------------------------------------------------------------------------
(* Properties of the tools, under SpecTools *)

\* a connection call made during the invocation failed
Failed(c) == \E i \in 1..Len(c.res.calls) : ~c.ok[i]

IsErrorPair(v) ==
    /\ Len(v) = 2
    /\ v[1].type = "str"
    /\ Len(v[1].text) = 2
    /\ v[1].text[1] = "Error: "
    /\ v[2] = None

IsResultPair(v) ==
    /\ Len(v) = 2
    /\ v[1].type = "DataFrame"
    /\ v[2] # None
    /\ ~v[2].is_none
    /\ v[2].id \in Nat \ {0}

\* C1: QuerySQLDataBaseTool._run never raises: a failing connection call gives
\* (error message, None), success gives (result, non-empty identifier), and the
\* second element is None exactly when the first is an error message.
QueryNeverRaises ==
    call.tool = "sql_db_query" =>
        /\ call.res.outcome = "return"
        /\ Failed(call) => IsErrorPair(call.res.value)
        /\ ~Failed(call) => IsResultPair(call.res.value)
        /\ (call.res.value[2] = None) <=> (call.res.value[1].type = "str")

\* C1 witness: cursor.execute fails after read_sql went through, an error pair comes back
QueryErrorPairReturned ==
    /\ call.tool = "sql_db_query"
    /\ call.ok[1] /\ call.ok[2] /\ ~call.ok[3]
    /\ Len(call.res.calls) = 3
    /\ IsErrorPair(call.res.value)

\* C10: an invocation executes the statement exactly once, the identifier it
\* returns is that of the execution its rows came from, and an invocation that
\* returns an error pair has not applied the statement.
QueryExecutesOnce ==
    call.tool = "sql_db_query" =>
        /\ IsResultPair(call.res.value) =>
               /\ Len(call.res.execs) = 1
               /\ call.res.value[2].id = call.res.results_of
        /\ IsErrorPair(call.res.value) => Len(call.res.execs) = 0

\* the header the i-th section must carry for the i-th listed name
ExpectedHeader(t) == <<"Schema for table ">> \o t \o <<":">>

\* C2: with every describe succeeding, a list of n names gives n describe
\* requests and n sections, both in input order, each section under its header.
SchemaOneSectionPerName ==
    (call.tool = "sql_db_schema" /\ ~Failed(call)) =>
        LET n == Len(call.listed)
        IN  /\ call.res.outcome = "return"
            /\ Len(call.res.calls) = n
            /\ \A i \in 1..n : call.res.calls[i] = <<"DESCRIBE TABLE ">> \o call.listed[i]
            /\ Len(call.res.value) = n
            /\ \A i \in 1..n : call.res.value[i].header = ExpectedHeader(call.listed[i])

\* C2 witness: "table1, table2" gives two describe calls and two sections
SchemaTwoSections ==
    /\ call.tool = "sql_db_schema"
    /\ call.input = <<"a", COMMA, " ", "b">>
    /\ ~Failed(call)
    /\ Len(call.res.calls) = 2
    /\ Len(call.res.value) = 2

\* the sections the caller of _run gets: none when it raises
ReturnedSections(r) == IF r.outcome = "return" THEN r.value ELSE <<>>

\* the first listed table whose describe request fails, 0 when none does
FirstFailing(c) ==
    IF \E i \in 1..Len(c.listed) : ~c.ok[i]
    THEN CHOOSE k \in 1..Len(c.listed) : ~c.ok[k] /\ \A j \in 1..(k - 1) : c.ok[j]
    ELSE 0

\* C9: when the describe request of the k-th table fails the call raises, no
\* request follows the k-th, and no section rendered so far is returned.
SchemaFailureAborts ==
    (call.tool = "sql_db_schema" /\ FirstFailing(call) > 0) =>
        LET k == FirstFailing(call)
        IN  /\ call.res.outcome = "raise"
            /\ Len(call.res.calls) = k
            /\ \A i \in 1..k : call.res.calls[i] = <<"DESCRIBE TABLE ">> \o call.listed[i]
            /\ ReturnedSections(call.res) = <<>>

\* C9 witness: the second of three tables fails after the first was rendered
SchemaSecondOfThreeFails ==
    /\ call.tool = "sql_db_schema"
    /\ Len(call.listed) = 3
    /\ FirstFailing(call) = 2
    /\ call.res.outcome = "raise"

\* Where a single-quoted literal of the warehouse's SQL ends: a backslash
\* escapes the character after it, two single quotes are one quote, and the
\* first other single quote closes the literal. i is the position after the
\* opening quote; 0 when the literal never closes.
RECURSIVE LiteralEnd(_, _)
LiteralEnd(s, i) ==
    IF i > Len(s) THEN 0
    ELSE IF s[i] = BS THEN LiteralEnd(s, i + 2)
    ELSE IF s[i] = SQ
         THEN IF i < Len(s) /\ s[i + 1] = SQ THEN LiteralEnd(s, i + 2) ELSE i
    ELSE LiteralEnd(s, i + 1)

HasQuote(query) == \E i \in 1..Len(query) : query[i] \in {SQ, DQ}

\* C3: for a query that holds a quote, the prompt stays one string literal of the
\* completion request: the literal opened before the prompt closes at the
\* request's own closing quote and nowhere earlier.
CheckerPromptIsOneLiteral ==
    (call.tool = "sql_db_query_checker" /\ HasQuote(call.input)) =>
        LET request == call.res.calls[1]
        IN  LiteralEnd(request, Len(CortexHead) + 1) = Len(request) - 1

---------------------------------------------------------------------------
(* Properties of the agent run and the chat handler, under Spec *)

ToolSet == {"sql_db_query", "sql_db_schema", "sql_db_query_checker"}

\* C4: a tool execution error reported by the connection is not fatal: the tool
\* invocation returns an observation and the run goes on.
ToolErrorIsObservation ==
    (exec.requested # "none" /\ exec.conn_failed) =>
        /\ exec.res.outcome = "return"
        /\ run.phase = "raised" => run.ended_by # "tool exception"

RunGetsHistory ==
    (run.phase # "awaiting-input" /\ Len(messages) > 1) =>
        run.inputs.chat_history = SubSeq(messages, 1, Len(messages) - 1)

====
